---- MODULE Spec2Model ----
(***************************************************************************)
(* Model of src/main.rs of hackattic_reading_qr: the bounding-box search   *)
(* shrinkwrap_bounding_box and the normalisation pipeline decode_qr.       *)
(*                                                                         *)
(* An image is a record [w, h, px] where px maps <<x, y>> (0-based, x the  *)
(* column and y the row) to an 8-bit intensity.  A panic of the program    *)
(* (an out-of-bounds get_pixel) is result = "panic"; the position pc then  *)
(* stays on the statement that panicked.                                   *)
(***************************************************************************)
EXTENDS Integers, FiniteSets, Sequences, TLC

VARIABLES
    pc,               \* position in shrinkwrap_bounding_box / decode_qr
    result,           \* "none" while running, then "Ok", "Err" or "panic"
    ret,              \* call site shrinkwrap_bounding_box returns to
    img,              \* shrinkwrap_bounding_box: the img parameter
    arg,              \* shrinkwrap_bounding_box: the parameters <<x1,y1,x2,y2>>
    x1, y1, x2, y2,   \* shrinkwrap_bounding_box: the mutable locals
    input,            \* decode_qr: input of line 117
    translated,       \* decode_qr: input of line 128
    bbox,             \* decode_qr: box of line 121
    corner,           \* decode_qr: <<x1, y1>> of lines 133-134
    tri,              \* decode_qr: <<x2, y2>> of lines 137-138
    tri_w, tri_h,     \* decode_qr: legs of the triangle
    correction_angle, \* decode_qr: atan(tri_h / tri_w)
    corrected,        \* decode_qr: the rotated buffer
    crop_box,         \* decode_qr: box of line 157
    cropped,          \* decode_qr: the cropped buffer
    pixel_pitch,      \* decode_qr: round(width / 21)
    id_upper, id_left, id_right, id_lower,
    rotated           \* decode_qr: the oriented buffer

boxvars == <<img, arg, x1, y1, x2, y2>>
qrvars == <<input, bbox, translated, corner, tri, tri_w, tri_h, correction_angle,
            corrected, crop_box, cropped, pixel_pitch,
            id_upper, id_left, id_right, id_lower, rotated>>
vars == <<pc, result, ret, boxvars, qrvars>>

(***************************************************************************)
(* Bounds of the model.                                                    *)
(***************************************************************************)
MaxWidth == 3
MaxHeight == 3
MaxPitch == 2

(***************************************************************************)
(* Program constants.                                                      *)
(***************************************************************************)
DarkThreshold == 16
ModuleThreshold == 127
Modules == 21

ID_PATTERN ==
    [i \in 0..20 |-> IF i \in 7..13 THEN i % 2 = 0 ELSE TRUE]

(***************************************************************************)
(* Images.                                                                 *)
(***************************************************************************)
Min(S) == CHOOSE m \in S : \A n \in S : m <= n

Coords(w, h) == (0..(w - 1)) \X (0..(h - 1))

NoImage == [w |-> 0, h |-> 0, px |-> [p \in {} |-> 0]]

InBounds(im, x, y) == x >= 0 /\ x < im.w /\ y >= 0 /\ y < im.h

get_pixel(im, x, y) == im.px[<<x, y>>]

\* Variant of IsDark with the comparison <= 16.
IsDarkInclusive(im, x, y) == get_pixel(im, x, y) <= DarkThreshold

IsDark(im, x, y) == get_pixel(im, x, y) < DarkThreshold

(***************************************************************************)
(* The inner for loops of shrinkwrap_bounding_box.  A scan visits the      *)
(* pixels in order and stops at the first dark one; it panics when it      *)
(* reaches a pixel outside the image before that.                          *)
(***************************************************************************)
Scan(im, line) ==
    LET n == Len(line)
        dark == {i \in 1..n : InBounds(im, line[i][1], line[i][2])
                              /\ IsDark(im, line[i][1], line[i][2])}
        oob == {i \in 1..n : ~InBounds(im, line[i][1], line[i][2])}
    IN  IF oob # {} /\ (dark = {} \/ Min(oob) < Min(dark)) THEN "oob"
        ELSE IF dark # {} THEN "dark"
        ELSE "light"

RowLine(xa, xb, y) == [i \in 1..(IF xb >= xa THEN xb - xa + 1 ELSE 0) |-> <<xa + i - 1, y>>]

ColLine(x, ya, yb) == [i \in 1..(IF yb >= ya THEN yb - ya + 1 ELSE 0) |-> <<x, ya + i - 1>>]

TopLine(a1, b1, a2, b2) == RowLine(0, a2, b1)

\* Variant of LeftLine that looks at row y1 only.
LeftLineTopOnly(a1, b1, a2, b2) == ColLine(a1, b1, b1)

LeftLine(a1, b1, a2, b2) == ColLine(a1, b1, b2)

BottomLine(a1, b1, a2, b2) == RowLine(a1, a2, b2)

RightLine(a1, b1, a2, b2) == ColLine(a2, b1, b2)

(***************************************************************************)
(* shrinkwrap_bounding_box, one action per iteration of each while loop.   *)
(***************************************************************************)
Call(im, a1, b1, a2, b2, site) ==
    /\ img' = im
    /\ arg' = <<a1, b1, a2, b2>>
    /\ x1' = a1 /\ y1' = b1 /\ x2' = a2 /\ y2' = b2
    /\ ret' = site
    /\ pc' = "top"

Panic == result' = "panic" /\ pc' = pc

\* Variant of TopPass without the loop condition y1 < y2.
TopPassNoStop ==
    /\ pc = "top" /\ result = "none"
    /\ LET s == Scan(img, TopLine(x1, y1, x2, y2))
       IN  IF s = "oob"
           THEN Panic /\ UNCHANGED <<y1>>
           ELSE IF s = "dark"
           THEN pc' = "left" /\ UNCHANGED <<y1, result>>
           ELSE y1' = y1 + 1 /\ UNCHANGED <<pc, result>>
    /\ UNCHANGED <<ret, img, arg, x1, x2, y2, qrvars>>

TopPass ==
    /\ pc = "top" /\ result = "none"
    /\ IF y1 < y2
       THEN LET s == Scan(img, TopLine(x1, y1, x2, y2))
            IN  IF s = "oob"
                THEN Panic /\ UNCHANGED <<y1>>
                ELSE IF s = "dark"
                THEN pc' = "left" /\ UNCHANGED <<y1, result>>
                ELSE y1' = y1 + 1 /\ UNCHANGED <<pc, result>>
       ELSE pc' = "left" /\ UNCHANGED <<y1, result>>
    /\ UNCHANGED <<ret, img, arg, x1, x2, y2, qrvars>>

LeftPass ==
    /\ pc = "left" /\ result = "none"
    /\ IF x1 < x2
       THEN LET s == Scan(img, LeftLine(x1, y1, x2, y2))
            IN  IF s = "oob"
                THEN Panic /\ UNCHANGED <<x1>>
                ELSE IF s = "dark"
                THEN pc' = "bottom" /\ UNCHANGED <<x1, result>>
                ELSE x1' = x1 + 1 /\ UNCHANGED <<pc, result>>
       ELSE pc' = "bottom" /\ UNCHANGED <<x1, result>>
    /\ UNCHANGED <<ret, img, arg, y1, x2, y2, qrvars>>

BottomPass ==
    /\ pc = "bottom" /\ result = "none"
    /\ IF y2 > y1
       THEN LET s == Scan(img, BottomLine(x1, y1, x2, y2))
            IN  IF s = "oob"
                THEN Panic /\ UNCHANGED <<y2>>
                ELSE IF s = "dark"
                THEN pc' = "right" /\ UNCHANGED <<y2, result>>
                ELSE y2' = y2 - 1 /\ UNCHANGED <<pc, result>>
       ELSE pc' = "right" /\ UNCHANGED <<y2, result>>
    /\ UNCHANGED <<ret, img, arg, x1, y1, x2, qrvars>>

RightPass ==
    /\ pc = "right" /\ result = "none"
    /\ IF x2 > x1
       THEN LET s == Scan(img, RightLine(x1, y1, x2, y2))
            IN  IF s = "oob"
                THEN Panic /\ UNCHANGED <<x2>>
                ELSE IF s = "dark"
                THEN pc' = "ret" /\ UNCHANGED <<x2, result>>
                ELSE x2' = x2 - 1 /\ UNCHANGED <<pc, result>>
       ELSE pc' = "ret" /\ UNCHANGED <<x2, result>>
    /\ UNCHANGED <<ret, img, arg, x1, y1, y2, qrvars>>

(***************************************************************************)
(* Values of the decode_qr locals before they are assigned.                *)
(***************************************************************************)
NoBox == <<0, 0, 0, 0>>
NoAngle == [kind |-> "unset", num |-> 0, den |-> 0]
NoStrip == [i \in 0..20 |-> FALSE]

QrUnset ==
    /\ input = NoImage /\ translated = NoImage /\ bbox = NoBox
    /\ corner = <<0, 0>> /\ tri = <<0, 0>>
    /\ tri_w = 0 /\ tri_h = 0 /\ correction_angle = NoAngle
    /\ corrected = NoImage /\ crop_box = NoBox /\ cropped = NoImage
    /\ pixel_pitch = 0
    /\ id_upper = NoStrip /\ id_left = NoStrip
    /\ id_right = NoStrip /\ id_lower = NoStrip
    /\ rotated = NoImage

(***************************************************************************)
(* shrinkwrap_bounding_box on every image of at most MaxWidth x MaxHeight  *)
(* pixels whose intensities sit on either side of the threshold.  SpecBox  *)
(* calls it with the full-image rectangle, as lines 121 and 157 do;        *)
(* SpecRect calls it with every search rectangle inside the image.         *)
(***************************************************************************)
BoxPixels == {DarkThreshold - 1, DarkThreshold}

BoxImages(w, h) == {[w |-> w, h |-> h, px |-> f] : f \in [Coords(w, h) -> BoxPixels]}

InitCall(a1, b1, a2, b2) ==
    /\ pc = "top" /\ result = "none" /\ ret = "none"
    /\ arg = <<a1, b1, a2, b2>>
    /\ x1 = a1 /\ y1 = b1 /\ x2 = a2 /\ y2 = b2
    /\ QrUnset

InitBox ==
    \E w \in 1..MaxWidth, h \in 1..MaxHeight :
        /\ img \in BoxImages(w, h)
        /\ InitCall(0, 0, w - 1, h - 1)

InitRect ==
    \E w \in 1..MaxWidth, h \in 1..MaxHeight :
        /\ img \in BoxImages(w, h)
        /\ \E a1 \in 0..(w - 1), a2 \in 0..(w - 1),
              b1 \in 0..(h - 1), b2 \in 0..(h - 1) :
              /\ a1 <= a2 /\ b1 <= b2
              /\ InitCall(a1, b1, a2, b2)

NextBox == TopPass \/ LeftPass \/ BottomPass \/ RightPass

SpecBox == InitBox /\ [][NextBox]_vars

SpecRect == InitRect /\ [][NextBox]_vars

\* The images without a dark pixel, of one intensity each; every loop of
\* shrinkwrap_bounding_box runs to its end, so each step is taken eventually.
LightValues == {DarkThreshold, ModuleThreshold, 255}

LightImages(w, h) ==
    {[w |-> w, h |-> h, px |-> [p \in Coords(w, h) |-> v]] : v \in LightValues}

InitLight ==
    \E w \in 1..MaxWidth, h \in 1..MaxHeight :
        /\ img \in LightImages(w, h)
        /\ InitCall(0, 0, w - 1, h - 1)

FairSpecLight == InitLight /\ [][NextBox]_vars /\ WF_vars(NextBox)

(***************************************************************************)
(* The external image primitives decode_qr calls.                          *)
(***************************************************************************)
Clamp(v, lo, hi) == IF v < lo THEN lo ELSE IF v > hi THEN hi ELSE v

\* geom::translate: the output has the input's size; a pixel whose
\* pre-image lies outside the input takes the nearest boundary pixel.
translate(im, tx, ty) ==
    [w |-> im.w, h |-> im.h,
     px |-> [p \in Coords(im.w, im.h) |->
                im.px[<<Clamp(p[1] - tx, 0, im.w - 1),
                        Clamp(p[2] - ty, 0, im.h - 1)>>]]]

\* imageops::crop_imm(..).to_image(): the rectangle is clipped to the image.
crop_imm(im, x, y, width, height) ==
    LET cx == IF x < im.w THEN x ELSE im.w
        cy == IF y < im.h THEN y ELSE im.h
        cw == IF width < im.w - cx THEN width ELSE im.w - cx
        ch == IF height < im.h - cy THEN height ELSE im.h - cy
    IN  [w |-> cw, h |-> ch,
         px |-> [p \in Coords(cw, ch) |-> im.px[<<cx + p[1], cy + p[2]>>]]]

\* imageops::rotate90 / rotate180 / rotate270 (clockwise).
rotate90(im) ==
    [w |-> im.h, h |-> im.w,
     px |-> [p \in Coords(im.h, im.w) |-> im.px[<<p[2], im.h - 1 - p[1]>>]]]

rotate180(im) ==
    [w |-> im.w, h |-> im.h,
     px |-> [p \in Coords(im.w, im.h) |->
                im.px[<<im.w - 1 - p[1], im.h - 1 - p[2]>>]]]

rotate270(im) ==
    [w |-> im.h, h |-> im.w,
     px |-> [p \in Coords(im.h, im.w) |-> im.px[<<im.w - 1 - p[2], p[1]>>]]]

(***************************************************************************)
(* f32 arithmetic of lines 141-144: the quotient of two non-negative       *)
(* integers and its arctangent, kept symbolic.                             *)
(***************************************************************************)
FDiv(n, d) ==
    IF d = 0
    THEN IF n = 0 THEN [kind |-> "nan", num |-> 0, den |-> 0]
                  ELSE [kind |-> "inf", num |-> 0, den |-> 0]
    ELSE [kind |-> "num", num |-> n, den |-> d]

atan(q) ==
    IF q.kind = "nan" THEN [kind |-> "nan", num |-> 0, den |-> 0]
    ELSE IF q.kind = "inf" THEN [kind |-> "halfpi", num |-> 0, den |-> 0]
    ELSE IF q.num = 0 THEN [kind |-> "zero", num |-> 0, den |-> 0]
    ELSE [kind |-> "atan", num |-> q.num, den |-> q.den]

\* (width as f32 / 21.0).round() as u32; width / 21 is never a half.
RoundDiv21(width) == (2 * width + Modules) \div (2 * Modules)

(***************************************************************************)
(* Strip sampling of lines 165-190.                                        *)
(***************************************************************************)
Center(i, pitch) == (i * pitch) + (pitch \div 2)

RowCoords(r, pitch) == [i \in 0..20 |-> <<Center(i, pitch), Center(r, pitch)>>]

ColCoords(c, pitch) == [i \in 0..20 |-> <<Center(c, pitch), Center(i, pitch)>>]

SampleCoords(pitch) ==
    UNION {{RowCoords(6, pitch)[i], RowCoords(14, pitch)[i],
            ColCoords(6, pitch)[i], ColCoords(14, pitch)[i]} : i \in 0..20}

Strip(im, coords) ==
    [i \in 0..20 |-> get_pixel(im, coords[i][1], coords[i][2]) < ModuleThreshold]

(***************************************************************************)
(* The images the model draws from.                                        *)
(***************************************************************************)
Light == 255

RectImage(w, h, a, b, c, d) ==
    [w |-> w, h |-> h,
     px |-> [p \in Coords(w, h) |->
                IF p[1] \in a..c /\ p[2] \in b..d THEN 0 ELSE Light]]

\* The all-light image (a = w) and every solid dark rectangle on light.
RectImages(w, h) ==
    {RectImage(w, h, a, b, c, d) :
        <<a, b, c, d>> \in (0..w) \X (0..(h - 1)) \X (0..(w - 1)) \X (0..(h - 1))}

AllTrue == [i \in 0..20 |-> TRUE]

FirstLight == [i \in 0..20 |-> IF i = 0 THEN FALSE ELSE ID_PATTERN[i]]

\* A 21 x 21 module grid given by its four strips and a background.
Module(up, lo, le, ri, bg, r, c) ==
    IF r = 6 THEN up[c] ELSE IF r = 14 THEN lo[c]
    ELSE IF c = 6 THEN le[r] ELSE IF c = 14 THEN ri[r] ELSE bg

\* The grid drawn with pitch x pitch pixels per module.
Render(up, lo, le, ri, bg, pitch, vd, vl) ==
    [w |-> Modules * pitch, h |-> Modules * pitch,
     px |-> [p \in Coords(Modules * pitch, Modules * pitch) |->
                IF Module(up, lo, le, ri, bg, p[2] \div pitch, p[1] \div pitch)
                THEN vd ELSE vl]]

\* An image with a light margin of m pixels around it.
Pad(im, m) ==
    [w |-> im.w + 2 * m, h |-> im.h + 2 * m,
     px |-> [p \in Coords(im.w + 2 * m, im.h + 2 * m) |->
                IF InBounds(im, p[1] - m, p[2] - m)
                THEN im.px[<<p[1] - m, p[2] - m>>] ELSE Light]]

Upright(pitch) ==
    Render(ID_PATTERN, AllTrue, ID_PATTERN, AllTrue, FALSE, pitch, 0, Light)

SymbolImages(p, m) == {Pad(Upright(p), m), Pad(rotate90(Upright(p)), m)}

\* The images of the model that have the size of im.
SameSize(im) ==
    IF im.w <= MaxWidth /\ im.h <= MaxHeight
    THEN RectImages(im.w, im.h)
    ELSE SymbolImages(im.w \div Modules, (im.w % Modules) \div 2)

\* geom::rotate keeps the size of its input; what it draws is not modelled:
\* any image of the model with that size, and the input itself for angle 0.
rotate(im, center, theta) ==
    IF theta.kind = "zero" THEN {im}
    ELSE SameSize(im)

(***************************************************************************)
(* decode_qr.                                                              *)
(***************************************************************************)
Start ==
    /\ pc = "start" /\ result = "none"
    /\ Call(input, 0, 0, input.w - 1, input.h - 1, "box1")
    /\ UNCHANGED <<result, qrvars>>

AfterBox1 ==
    /\ pc = "ret" /\ ret = "box1" /\ result = "none"
    /\ LET offset_x == (input.w - 1) - x2
           offset_y == (input.h - 1) - y2
           moved == translate(input, offset_x, offset_y)
       IN  /\ bbox' = <<x1, y1, x2, y2>>
           /\ translated' = moved
           /\ corner' = <<x1 + offset_x, y1 + offset_y>>
           /\ Call(moved, x1 + offset_x, y1 + offset_y,
                   input.w - 1, y1 + offset_y, "row")
    /\ UNCHANGED <<result, input, tri, tri_w, tri_h, correction_angle,
                   corrected, crop_box, cropped, pixel_pitch,
                   id_upper, id_left, id_right, id_lower, rotated>>

AfterRow ==
    /\ pc = "ret" /\ ret = "row" /\ result = "none"
    /\ tri' = <<x1, tri[2]>>
    /\ Call(translated, corner[1], corner[2], corner[1], input.h - 1, "col")
    /\ UNCHANGED <<result, input, bbox, translated, corner, tri_w, tri_h,
                   correction_angle, corrected, crop_box, cropped,
                   pixel_pitch, id_upper, id_left, id_right, id_lower, rotated>>

AfterCol ==
    /\ pc = "ret" /\ ret = "col" /\ result = "none"
    /\ tri' = <<tri[1], y1>>
    /\ tri_w' = tri[1] - corner[1]
    /\ tri_h' = y1 - corner[2]
    /\ correction_angle' = atan(FDiv(y1 - corner[2], tri[1] - corner[1]))
    /\ corrected' \in rotate(translated, <<tri[1], corner[2]>>,
                             atan(FDiv(y1 - corner[2], tri[1] - corner[1])))
    /\ pc' = "save_corrected"
    /\ UNCHANGED <<result, ret, boxvars, input, bbox, translated, corner,
                   crop_box, cropped, pixel_pitch,
                   id_upper, id_left, id_right, id_lower, rotated>>

SaveCorrected ==
    /\ pc = "save_corrected" /\ result = "none"
    /\ \E saved \in BOOLEAN :
          IF saved
          THEN /\ Call(corrected, 0, 0, corrected.w - 1, corrected.h - 1, "box2")
               /\ UNCHANGED result
          ELSE /\ result' = "Err"
               /\ UNCHANGED <<pc, ret, boxvars>>
    /\ UNCHANGED qrvars

AfterBox2 ==
    /\ pc = "ret" /\ ret = "box2" /\ result = "none"
    /\ crop_box' = <<x1, y1, x2, y2>>
    /\ cropped' = crop_imm(corrected, x1, y1, x2 - x1, y2 - y1)
    /\ pc' = "save_cropped"
    /\ UNCHANGED <<result, ret, boxvars, input, bbox, translated, corner, tri,
                   tri_w, tri_h, correction_angle, corrected, pixel_pitch,
                   id_upper, id_left, id_right, id_lower, rotated>>

SaveCropped ==
    /\ pc = "save_cropped" /\ result = "none"
    /\ \E saved \in BOOLEAN :
          IF saved
          THEN /\ pixel_pitch' = RoundDiv21(cropped.w)
               /\ pc' = "sample"
               /\ UNCHANGED result
          ELSE /\ result' = "Err"
               /\ UNCHANGED <<pc, pixel_pitch>>
    /\ UNCHANGED <<ret, boxvars, input, bbox, translated, corner, tri,
                   tri_w, tri_h, correction_angle, corrected, crop_box,
                   cropped, id_upper, id_left, id_right, id_lower, rotated>>

Sample ==
    /\ pc = "sample" /\ result = "none"
    /\ IF \A p \in SampleCoords(pixel_pitch) : InBounds(cropped, p[1], p[2])
       THEN /\ id_upper' = Strip(cropped, RowCoords(6, pixel_pitch))
            /\ id_lower' = Strip(cropped, RowCoords(14, pixel_pitch))
            /\ id_left' = Strip(cropped, ColCoords(6, pixel_pitch))
            /\ id_right' = Strip(cropped, ColCoords(14, pixel_pitch))
            /\ pc' = "orient"
            /\ UNCHANGED result
       ELSE /\ Panic
            /\ UNCHANGED <<id_upper, id_left, id_right, id_lower>>
    /\ UNCHANGED <<ret, boxvars, input, bbox, translated, corner, tri,
                   tri_w, tri_h, correction_angle, corrected, crop_box,
                   cropped, pixel_pitch, rotated>>

\* Variant of Orient that tests right and lower before lower and left.
OrientRightFirst ==
    /\ pc = "orient" /\ result = "none"
    /\ rotated' =
          IF id_right = ID_PATTERN /\ id_lower = ID_PATTERN
          THEN rotate180(cropped)
          ELSE IF id_lower = ID_PATTERN /\ id_left = ID_PATTERN
          THEN rotate90(cropped)
          ELSE IF id_upper = ID_PATTERN /\ id_right = ID_PATTERN
          THEN rotate270(cropped)
          ELSE cropped
    /\ pc' = "save_rotated"
    /\ UNCHANGED <<result, ret, boxvars, input, bbox, translated, corner, tri,
                   tri_w, tri_h, correction_angle, corrected, crop_box,
                   cropped, pixel_pitch,
                   id_upper, id_left, id_right, id_lower>>

\* Variant of Orient that turns by 270 where Orient turns by 90 and back.
OrientWrongWay ==
    /\ pc = "orient" /\ result = "none"
    /\ rotated' =
          IF id_lower = ID_PATTERN /\ id_left = ID_PATTERN
          THEN rotate270(cropped)
          ELSE IF id_right = ID_PATTERN /\ id_lower = ID_PATTERN
          THEN rotate180(cropped)
          ELSE IF id_upper = ID_PATTERN /\ id_right = ID_PATTERN
          THEN rotate90(cropped)
          ELSE cropped
    /\ pc' = "save_rotated"
    /\ UNCHANGED <<result, ret, boxvars, input, bbox, translated, corner, tri,
                   tri_w, tri_h, correction_angle, corrected, crop_box,
                   cropped, pixel_pitch,
                   id_upper, id_left, id_right, id_lower>>

Orient ==
    /\ pc = "orient" /\ result = "none"
    /\ rotated' =
          IF id_lower = ID_PATTERN /\ id_left = ID_PATTERN
          THEN rotate90(cropped)
          ELSE IF id_right = ID_PATTERN /\ id_lower = ID_PATTERN
          THEN rotate180(cropped)
          ELSE IF id_upper = ID_PATTERN /\ id_right = ID_PATTERN
          THEN rotate270(cropped)
          ELSE cropped
    /\ pc' = "save_rotated"
    /\ UNCHANGED <<result, ret, boxvars, input, bbox, translated, corner, tri,
                   tri_w, tri_h, correction_angle, corrected, crop_box,
                   cropped, pixel_pitch,
                   id_upper, id_left, id_right, id_lower>>

SaveRotated ==
    /\ pc = "save_rotated" /\ result = "none"
    /\ \E saved \in BOOLEAN :
          result' = IF saved THEN "Ok" ELSE "Err"
    /\ pc' = "done"
    /\ UNCHANGED <<ret, boxvars, qrvars>>

BoxUnset ==
    /\ ret = "none" /\ img = NoImage /\ arg = NoBox
    /\ x1 = 0 /\ y1 = 0 /\ x2 = 0 /\ y2 = 0

Init ==
    /\ pc = "start" /\ result = "none"
    /\ BoxUnset
    /\ \/ \E w \in 1..MaxWidth, h \in 1..MaxHeight : input \in RectImages(w, h)
       \/ \E p \in 1..MaxPitch, m \in 0..1 : input \in SymbolImages(p, m)
    /\ translated = NoImage /\ bbox = NoBox /\ corner = <<0, 0>>
    /\ tri = <<0, 0>> /\ tri_w = 0 /\ tri_h = 0 /\ correction_angle = NoAngle
    /\ corrected = NoImage /\ crop_box = NoBox /\ cropped = NoImage
    /\ pixel_pitch = 0
    /\ id_upper = NoStrip /\ id_left = NoStrip
    /\ id_right = NoStrip /\ id_lower = NoStrip
    /\ rotated = NoImage

Next ==
    \/ Start
    \/ TopPass
    \/ LeftPass
    \/ BottomPass
    \/ RightPass
    \/ AfterBox1
    \/ AfterRow
    \/ AfterCol
    \/ SaveCorrected
    \/ AfterBox2
    \/ SaveCropped
    \/ Sample
    \/ Orient
    \/ SaveRotated

Spec == Init /\ [][Next]_vars

(***************************************************************************)
(* SpecOrient: the orientation stage of decode_qr (lines 159-206) on       *)
(* cropped buffers that draw a 21 x 21 module grid with 1..MaxPitch pixels *)
(* per module.  Each of the four strips is the identifier pattern or one   *)
(* of two near misses, the other modules are all dark or all light, and    *)
(* the two intensities sit far from or right at the threshold 127.         *)
(***************************************************************************)
StripChoices == {ID_PATTERN, AllTrue, FirstLight}

Intensities == {<<0, Light>>, <<ModuleThreshold - 1, ModuleThreshold>>}

OrientImages(p) ==
    {Render(s[1], s[2], s[3], s[4], bg, p, v[1], v[2]) :
        s \in StripChoices \X StripChoices \X StripChoices \X StripChoices,
        bg \in BOOLEAN, v \in Intensities}

InitOrient ==
    /\ pc = "save_cropped" /\ result = "none"
    /\ BoxUnset
    /\ \E p \in 1..MaxPitch : cropped \in OrientImages(p)
    /\ input = NoImage /\ translated = NoImage /\ bbox = NoBox
    /\ corner = <<0, 0>> /\ tri = <<0, 0>>
    /\ tri_w = 0 /\ tri_h = 0 /\ correction_angle = NoAngle
    /\ corrected = NoImage /\ crop_box = NoBox
    /\ pixel_pitch = 0
    /\ id_upper = NoStrip /\ id_left = NoStrip
    /\ id_right = NoStrip /\ id_lower = NoStrip
    /\ rotated = NoImage

NextOrient ==
    \/ SaveCropped
    \/ Sample
    \/ Orient
    \/ SaveRotated

SpecOrient == InitOrient /\ [][NextOrient]_vars

(***************************************************************************)
(* Properties of shrinkwrap_bounding_box.                                  *)
(***************************************************************************)
Box == <<x1, y1, x2, y2>>

Returned == pc = "ret" /\ result = "none"

FullRect == arg = <<0, 0, img.w - 1, img.h - 1>>

DarkSet(im) == {p \in DOMAIN im.px : im.px[p] < 16}

DarkCols(im) == {p[1] : p \in DarkSet(im)}

DarkRows(im) == {p[2] : p \in DarkSet(im)}

Max(S) == CHOOSE m \in S : \A n \in S : m >= n

\* C1: on an image that is light except for one solid dark rectangle
\* (a,b)-(c,d), the call on the full-image rectangle returns (a,b,c,d).
C1_SolidRectangleFound ==
    (Returned /\ FullRect) =>
        LET dark == DarkSet(img)
        IN  \A a \in 0..(img.w - 1), c \in 0..(img.w - 1),
               b \in 0..(img.h - 1), d \in 0..(img.h - 1) :
                (a <= c /\ b <= d /\ dark = (a..c) \X (b..d))
                    => Box = <<a, b, c, d>>

C1_Witness ==
    /\ Returned /\ FullRect /\ img.w = 3 /\ img.h = 3
    /\ DarkSet(img) = (1..2) \X (1..1)
    /\ Box = <<1, 1, 2, 1>>

\* C2 (as claimed): from any search rectangle inside the image, each edge of
\* the returned box, scanned over the box's own extent, holds a dark pixel,
\* unless the box collapsed because the search region holds no dark pixel.
SearchRegion == (arg[1]..arg[3]) \X (arg[2]..arg[4])

Collapsed == x1 = x2 \/ y1 = y2

EdgesTouchDark ==
    /\ \E x \in x1..x2 : <<x, y1>> \in DarkSet(img)
    /\ \E x \in x1..x2 : <<x, y2>> \in DarkSet(img)
    /\ \E y \in y1..y2 : <<x1, y>> \in DarkSet(img)
    /\ \E y \in y1..y2 : <<x2, y>> \in DarkSet(img)

C2_EveryEdgeTouchesDark ==
    Returned =>
        \/ EdgesTouchDark
        \/ (Collapsed /\ SearchRegion \cap DarkSet(img) = {})

\* C3: on an all-light image the call on the full-image rectangle never
\* panics, keeps 0 <= x1 <= x2 < width and 0 <= y1 <= y2 < height in every
\* pass, returns, and returns a single point.
AllLightFull == FullRect /\ DarkSet(img) = {}

C3_AllLightCollapses ==
    /\ [](AllLightFull =>
            /\ result # "panic"
            /\ 0 <= x1 /\ x1 <= x2 /\ x2 <= img.w - 1
            /\ 0 <= y1 /\ y1 <= y2 /\ y2 <= img.h - 1
            /\ (pc = "ret" => (x1 = x2 /\ y1 = y2)))
    /\ (AllLightFull ~> Returned)

C3_Witness ==
    /\ Returned /\ AllLightFull /\ img.w = 3 /\ img.h = 2
    /\ img.px[<<0, 0>>] = DarkThreshold
    /\ Box = <<2, 1, 2, 1>>

\* C10: on an image with at least one dark pixel, the call on the
\* full-image rectangle returns the smallest and largest dark column and
\* the smallest and largest dark row, whatever the shape of the dark set.
C10_GlobalMinimalBox ==
    (Returned /\ FullRect /\ DarkSet(img) # {}) =>
        Box = <<Min(DarkCols(img)), Min(DarkRows(img)),
                Max(DarkCols(img)), Max(DarkRows(img))>>

C10_Witness ==
    /\ Returned /\ FullRect /\ img.w = 3 /\ img.h = 3
    /\ DarkSet(img) = {<<0, 2>>, <<1, 1>>, <<2, 0>>}
    /\ Box = <<0, 0, 2, 2>>

(***************************************************************************)
(* Properties of decode_qr.                                                *)
(***************************************************************************)
CropDone == pc \in {"save_cropped", "sample", "orient", "save_rotated", "done"}

\* C4 (as claimed): every dark pixel of the corrected buffer, those of
\* column x2 and row y2 of the box included, is in the cropped buffer.
C4_CropKeepsEveryDarkPixel ==
    CropDone =>
        \A p \in DarkSet(corrected) :
            /\ InBounds(cropped, p[1] - crop_box[1], p[2] - crop_box[2])
            /\ cropped.px[<<p[1] - crop_box[1], p[2] - crop_box[2]>>]
                   = corrected.px[p]

\* C5 (as claimed): with a degenerate box on the corrected buffer decode_qr
\* returns Err and never reaches the orientation stage.
Degenerate == crop_box[3] <= crop_box[1] \/ crop_box[4] <= crop_box[2]

SolidRectInput ==
    \E a \in 0..(input.w - 1), c \in 0..(input.w - 1),
       b \in 0..(input.h - 1), d \in 0..(input.h - 1) :
        a <= c /\ b <= d /\ DarkSet(input) = (a..c) \X (b..d)

C8_AxisAlignedAngleIsZero ==
    (pc = "save_corrected" /\ SolidRectInput) =>
        tri_w = 0 /\ tri_h = 0 /\ correction_angle.kind = "zero"

\* C9 (as claimed): when the symbol occupies exactly 21p x 21p pixels of the
\* corrected buffer, no strip sample is read outside the cropped buffer.
SymbolExact ==
    \E p \in 1..(corrected.w) :
        /\ crop_box[3] - crop_box[1] + 1 = Modules * p
        /\ crop_box[4] - crop_box[2] + 1 = Modules * p

C9_SamplesInsideCrop ==
    (pc = "sample" /\ SymbolExact) =>
        /\ result # "panic"
        /\ \A p \in SampleCoords(pixel_pitch) : InBounds(cropped, p[1], p[2])

(***************************************************************************)
(* Properties of the orientation stage.                                    *)
(***************************************************************************)
Oriented == pc \in {"save_rotated", "done"}

RowStrip(im, r) == Strip(im, RowCoords(r, RoundDiv21(im.w)))

ColStrip(im, c) == Strip(im, ColCoords(c, RoundDiv21(im.w)))

UpperMatch == RowStrip(cropped, 6) = ID_PATTERN

LowerMatch == RowStrip(cropped, 14) = ID_PATTERN

LeftMatch == ColStrip(cropped, 6) = ID_PATTERN

RightMatch == ColStrip(cropped, 14) = ID_PATTERN

\* C6: whatever strips match, the buffer is rotated by 90 if lower and left
\* match, else by 180 if right and lower match, else by 270 if upper and
\* right match, else left as it is; the last case covers a buffer whose
\* upper and left strips match and one whose strips match nowhere.
C6_RotationByPriority ==
    Oriented =>
        /\ rotated =
              IF LowerMatch /\ LeftMatch THEN rotate90(cropped)
              ELSE IF RightMatch /\ LowerMatch THEN rotate180(cropped)
              ELSE IF UpperMatch /\ RightMatch THEN rotate270(cropped)
              ELSE cropped
        /\ (UpperMatch /\ LeftMatch /\ ~LowerMatch /\ ~RightMatch)
              => rotated = cropped
        /\ (~UpperMatch /\ ~LeftMatch /\ ~LowerMatch /\ ~RightMatch)
              => rotated = cropped

C6_Witness ==
    /\ Oriented
    /\ ~UpperMatch /\ LowerMatch /\ LeftMatch /\ RightMatch
    /\ rotated = rotate90(cropped)
    /\ rotated # rotate180(cropped)

\* C7: when the cropped buffer is a grid with the identifier pattern in
\* module row 6 and module column 6 turned clockwise by 90, 180 or 270
\* degrees, the buffer decode_qr produces has the pattern in module row 6
\* and module column 6 again.
IsUpright(im) == RowStrip(im, 6) = ID_PATTERN /\ ColStrip(im, 6) = ID_PATTERN

TurnedUpright ==
    \/ IsUpright(rotate270(cropped))
    \/ IsUpright(rotate180(cropped))
    \/ IsUpright(rotate90(cropped))

C7_RotationRestoresUpright ==
    (Oriented /\ TurnedUpright) => IsUpright(rotated)

C7_Witness ==
    /\ Oriented
    /\ IsUpright(rotate270(cropped))
    /\ ~IsUpright(cropped)
    /\ rotated = rotate270(cropped)
    /\ rotated # cropped

====
